---- MODULE Spec2Model ----
(***************************************************************************)
(* gisp: the tokenizer (a state-function lexer run as a goroutine that     *)
(* hands its items over an unbuffered channel) and the reader (parse).     *)
(*                                                                         *)
(* Text is a sequence of one-character strings; every character of the     *)
(* alphabet is ASCII, so utf8.DecodeRuneInString always has width 1.       *)
(* Positions are byte offsets from 0, as in the source.                    *)
(***************************************************************************)
EXTENDS Naturals, Integers, Sequences, FiniteSets, TLC

\* Longest input text given to lex().
MaxLen == 3

\* Longest token stream handed to parse() by the abstract token source.
MaxToks == 6

VARIABLES
    input,       \* lexer.input
    pos,         \* lexer.pos
    start,       \* lexer.start
    width,       \* lexer.width
    lastPos,     \* lexer.lastPos
    parenDepth,  \* lexer.parenDepth
    vectDepth,   \* lexer.vectDepth
    state,       \* lexer.state: the state function the run loop calls next
    lpc,         \* where the lexer goroutine is: "loop", "call", "emit", "errorf",
                 \* "closed"; "feed" when an abstract token source stands in for it
    chan,        \* the item a blocked send on lexer.items is offering, or NoItem
    closed,      \* close(l.items) has run
    emitted,     \* history: every item the lexer has sent, in order
    recvd,       \* history: every item a receive on lexer.items has returned
    stack,       \* parse: the call stack of parse activations, innermost last
    ppc,         \* parse: "run", "ret", "done", "panic", or "off" (no reader)
    retval       \* parse: the value being returned by the activation that just ended

vars == <<input, pos, start, width, lastPos, parenDepth, vectDepth, state, lpc,
          chan, closed, emitted, recvd, stack, ppc, retval>>

----------------------------------------------------------------------------
(* Characters and item types *)

eof == "eof"

\* The character U+0060 (the quasiquote prefix), which a TLA+ string cannot hold.
backquote == "bq"

digits == {"1"}

\* The characters inputs are drawn from: every character some switch of the
\* lexer names, one digit, one other ("a").
Alphabet == {" ", "\t", "\n", "\r", "'", backquote, ",", "@", "\"", "\\",
             "(", ")", "[", "]", ";", ".", "a"} \cup digits

itemError == "itemError"
_INVALID == itemError
_EOF == "itemEOF"
_LPAREN == "itemLeftParen"
_RPAREN == "itemRightParen"
_LVECT == "itemLeftVect"
_RVECT == "itemRightVect"
_SYMBOL == "itemIdent"
_STRING == "itemString"
_FLOAT == "itemFloat"
_INT == "itemInt"
_QUOTE == "itemQuote"
_QUASIQUOTE == "itemQuasiQuote"
_UNQUOTE == "itemUnquote"
_UNQUOTESPLICE == "itemUnquoteSplice"

NoItem == [typ |-> "none", pos |-> 0, val |-> <<>>]

\* The zero value of item, which a receive on the closed channel returns.
zeroItem == [typ |-> itemError, pos |-> 0, val |-> <<>>]

nil == "nil"

----------------------------------------------------------------------------
(* The scanning primitives, on the triple of lexer fields they touch *)

lx == [pos |-> pos, start |-> start, width |-> width]

\* The rune l.next() would return.
rune(l) == IF l.pos >= Len(input) THEN eof ELSE input[l.pos + 1]

next(l) ==
    IF l.pos >= Len(input)
    THEN [l EXCEPT !.width = 0]
    ELSE [l EXCEPT !.width = 1, !.pos = l.pos + 1]

backup(l) == [l EXCEPT !.pos = l.pos - l.width]

\* peek leaves pos where it was and width at that of the rune it looked at.
peek(l) == backup(next(l))

ignore(l) == [l EXCEPT !.start = l.pos]

RECURSIVE acceptRun(_, _)
acceptRun(l, valid) ==
    IF rune(l) \in valid THEN acceptRun(next(l), valid) ELSE backup(next(l))

\* The item emit(t) sends: item{t, l.start, l.input[l.start:l.pos]}.
emitItem(l, t) == [typ |-> t, pos |-> l.start, val |-> SubSeq(input, l.start + 1, l.pos)]

\* The item errorf sends: the message is the format with its argument.
errorItem(l, msg) == [typ |-> itemError, pos |-> l.start, val |-> msg]

\* emit, after its send has completed: l.start = l.pos.
emitDone(l) == [l EXCEPT !.start = l.pos]

IsDigit(c) == c \in digits

----------------------------------------------------------------------------
(* The switch of each state function: the state it returns for rune c *)

swOpenVect(c) ==
    CASE c \in {" ", "\t", "\n", "\r"} -> "lexWhitespace"
      [] c = "'" -> "lexQuote"
      [] c = backquote -> "lexQuasiquote"
      [] c = "," -> "lexUnquote"
      [] c = "(" -> "lexOpenParen"
      [] c = ")" -> "lexCloseParen"
      [] c = "[" -> "lexOpenVect"
      [] c = "]" -> "lexCloseVect"
      [] c = ";" -> "lexComment"
      [] OTHER -> IF IsDigit(c) THEN "lexInt" ELSE "lexSymbol"

swCloseVect(c) ==
    CASE c \in {" ", "\t", "\n", "\r"} -> "lexWhitespace"
      [] c = "'" -> "lexQuote"
      [] c = backquote -> "lexQuasiquote"
      [] c = "," -> "lexUnquote"
      [] c = "(" -> "lexOpenParen"
      [] c = ")" -> "lexCloseParen"
      [] c = "[" -> "lexOpenVect"
      [] c = "]" -> "lexCloseVect"
      [] c = ";" -> "lexComment"
      [] OTHER -> IF IsDigit(c) THEN "lexInt" ELSE "lexSymbol"

swOpenParen(c) ==
    CASE c \in {" ", "\t", "\n", "\r"} -> "lexWhitespace"
      [] c = "'" -> "lexQuote"
      [] c = backquote -> "lexQuasiquote"
      [] c = "," -> "lexUnquote"
      [] c = "(" -> "lexOpenParen"
      [] c = ")" -> "lexCloseParen"
      [] c = "[" -> "lexOpenVect"
      [] c = "]" -> "lexCloseVect"
      [] c = ";" -> "lexComment"
      [] OTHER -> IF IsDigit(c) THEN "lexInt" ELSE "lexSymbol"

swQuote(c) ==
    CASE c = "\"" -> "lexString"
      [] c = "(" -> "lexOpenParen"
      [] c = ")" -> "lexCloseParen"
      [] c = "[" -> "lexOpenVect"
      [] c = "]" -> "lexCloseVect"
      [] c = "'" -> "lexQuote"
      [] c = backquote -> "lexQuasiquote"
      [] c = "," -> "lexUnquote"
      [] OTHER -> IF IsDigit(c) THEN "lexInt" ELSE "lexSymbol"

swQuasiquote(c) ==
    CASE c = "\"" -> "lexString"
      [] c = "(" -> "lexOpenParen"
      [] c = ")" -> "lexCloseParen"
      [] c = "[" -> "lexOpenVect"
      [] c = "]" -> "lexCloseVect"
      [] c = "'" -> "lexQuote"
      [] c = backquote -> "lexQuasiquote"
      [] c = "," -> "lexUnquote"
      [] OTHER -> IF IsDigit(c) THEN "lexInt" ELSE "lexSymbol"

swUnquote(c) ==
    CASE c = "\"" -> "lexString"
      [] c = "(" -> "lexOpenParen"
      [] c = ")" -> "lexCloseParen"
      [] c = "[" -> "lexOpenVect"
      [] c = "]" -> "lexCloseVect"
      [] c = "'" -> "lexQuote"
      [] c = backquote -> "lexQuasiquote"
      [] c = "," -> "lexUnquote"
      [] OTHER -> IF IsDigit(c) THEN "lexInt" ELSE "lexSymbol"

swUnquoteSplice(c) ==
    CASE c = "\"" -> "lexString"
      [] c = "(" -> "lexOpenParen"
      [] c = ")" -> "lexCloseParen"
      [] c = "[" -> "lexOpenVect"
      [] c = "]" -> "lexCloseVect"
      [] c = "'" -> "lexQuote"
      [] c = backquote -> "lexQuasiquote"
      [] c = "," -> "lexUnquote"
      [] OTHER -> IF IsDigit(c) THEN "lexInt" ELSE "lexSymbol"

\* lexWhitespace's switch for every rune but eof, which it handles itself.
swWhitespace(c) ==
    CASE c \in {" ", "\t", "\n"} -> "lexWhitespace"
      [] c = "'" -> "lexQuote"
      [] c = backquote -> "lexQuasiquote"
      [] c = "," -> "lexUnquote"
      [] c = "\"" -> "lexString"
      [] c = "(" -> "lexOpenParen"
      [] c = ")" -> "lexCloseParen"
      [] c = "[" -> "lexOpenVect"
      [] c = "]" -> "lexCloseVect"
      [] c = ";" -> "lexComment"
      [] OTHER -> IF IsDigit(c) THEN "lexInt" ELSE "lexSymbol"

\* lexCloseParen's switch; "errorf" stands for return l.errorf("unimplemented").
swCloseParen(c) ==
    CASE c \in {" ", "\t", "\n"} -> "lexWhitespace"
      [] c = "(" -> "lexOpenParen"
      [] c = ")" -> "lexCloseParen"
      [] c = "[" -> "lexOpenVect"
      [] c = "]" -> "lexCloseVect"
      [] c = ";" -> "lexComment"
      [] OTHER -> "errorf"

\* The delimiters after which lexInt emits its literal.
intDelims == {" ", "\t", "\n", ")", ";"}

\* The state lexInt returns after emitting, by the rune it peeked.
swInt(c) ==
    CASE c \in {" ", "\t", "\n"} -> "lexWhitespace"
      [] c = ")" -> "lexCloseParen"
      [] c = ";" -> "lexComment"

\* lexFloat's switch; "errorf" stands for the errorf of its last line.
swFloat(c) ==
    CASE c \in {" ", "\t", "\n"} -> "lexWhitespace"
      [] c = ")" -> "lexCloseParen"
      [] c = ";" -> "lexComment"
      [] OTHER -> "errorf"

\* The delimiters at which lexSymbol emits its identifier.
symbolDelims == {" ", "\t", "\n", ")", ";"}

swSymbol(c) ==
    CASE c \in {" ", "\t", "\n"} -> "lexWhitespace"
      [] c = ")" -> "lexCloseParen"
      [] c = ";" -> "lexComment"

swComment(c) == IF c \in {"\n", "\r"} THEN "lexWhitespace" ELSE "lexComment"

----------------------------------------------------------------------------
(* Steps of the lexer goroutine *)

\* The state function leaves the scanning fields as in l.
SetLx(l) == pos' = l.pos /\ start' = l.start /\ width' = l.width

\* The state function reaches the send of emit(t) and blocks in it.
Emit(l, t) ==
    /\ SetLx(l)
    /\ chan' = emitItem(l, t)
    /\ emitted' = Append(emitted, emitItem(l, t))
    /\ lpc' = "emit"
    /\ UNCHANGED state

\* The state function reaches the send of errorf and blocks in it.
Errorf(l, msg) ==
    /\ SetLx(l)
    /\ chan' = errorItem(l, msg)
    /\ emitted' = Append(emitted, errorItem(l, msg))
    /\ lpc' = "errorf"
    /\ UNCHANGED state

\* The state function returns s to the run loop.
Return(l, s) ==
    /\ SetLx(l)
    /\ state' = s
    /\ lpc' = "loop"
    /\ UNCHANGED <<chan, emitted>>

Calling(fn) == lpc = "call" /\ state = fn

\* emit returning without waiting for its item to be received, as on a
\* buffered channel.
EmittedUnreceived(fn) == lpc = "emit" /\ state = fn

\* The send of emit in state function fn has been received.
Emitted(fn) == lpc = "emit" /\ state = fn /\ chan = NoItem


\* What a step of the lexer goroutine leaves alone besides the fields named.
lexFrame == UNCHANGED <<input, lastPos, closed, recvd, stack, ppc, retval>>

\* for l.state = lexWhitespace; l.state != nil; { ... }; close(l.items)
run ==
    /\ lpc = "loop"
    /\ \/ state # nil /\ lpc' = "call" /\ UNCHANGED closed
       \/ state = nil /\ lpc' = "closed" /\ closed' = TRUE
    /\ UNCHANGED <<input, pos, start, width, lastPos, parenDepth, vectDepth, state,
                   chan, emitted, recvd, stack, ppc, retval>>

\* errorf returning the dispatch state instead of nil.
errorfResumes ==
    /\ lpc = "errorf"
    /\ chan = NoItem
    /\ Return(lx, "lexWhitespace")
    /\ UNCHANGED <<parenDepth, vectDepth>>
    /\ lexFrame

\* errorf, after its send has completed: return nil.
errorf ==
    /\ lpc = "errorf"
    /\ chan = NoItem
    /\ Return(lx, nil)
    /\ UNCHANGED <<parenDepth, vectDepth>>
    /\ lexFrame

lexOpenVect ==
    /\ Calling("lexOpenVect")
    /\ Emit(lx, _LVECT)
    /\ UNCHANGED <<parenDepth, vectDepth>>
    /\ lexFrame

lexOpenVectEmitted ==
    /\ Emitted("lexOpenVect")
    /\ vectDepth' = vectDepth + 1
    /\ LET l1 == emitDone(lx)
       IN  Return(next(l1), swOpenVect(rune(l1)))
    /\ UNCHANGED parenDepth
    /\ lexFrame

lexCloseVect ==
    /\ Calling("lexCloseVect")
    /\ Emit(lx, _RVECT)
    /\ UNCHANGED <<parenDepth, vectDepth>>
    /\ lexFrame

lexCloseVectEmitted ==
    /\ Emitted("lexCloseVect")
    /\ vectDepth' = vectDepth - 1
    /\ LET l1 == emitDone(lx)
       IN  IF parenDepth < 0
           THEN Errorf(l1, <<"unexpected close paren [vect]">>)
           ELSE Return(next(l1), swCloseVect(rune(l1)))
    /\ UNCHANGED parenDepth
    /\ lexFrame

lexOpenParen ==
    /\ Calling("lexOpenParen")
    /\ Emit(lx, _LPAREN)
    /\ UNCHANGED <<parenDepth, vectDepth>>
    /\ lexFrame

lexOpenParenEmitted ==
    /\ Emitted("lexOpenParen")
    /\ parenDepth' = parenDepth + 1
    /\ LET l1 == emitDone(lx)
       IN  Return(next(l1), swOpenParen(rune(l1)))
    /\ UNCHANGED vectDepth
    /\ lexFrame

lexQuote ==
    /\ Calling("lexQuote")
    /\ Emit(ignore(acceptRun(lx, {" "})), _QUOTE)
    /\ UNCHANGED <<parenDepth, vectDepth>>
    /\ lexFrame

lexQuoteEmitted ==
    /\ Emitted("lexQuote")
    /\ LET l1 == emitDone(lx)
       IN  Return(next(l1), swQuote(rune(l1)))
    /\ UNCHANGED <<parenDepth, vectDepth>>
    /\ lexFrame

lexQuasiquote ==
    /\ Calling("lexQuasiquote")
    /\ Emit(ignore(acceptRun(lx, {" "})), _QUASIQUOTE)
    /\ UNCHANGED <<parenDepth, vectDepth>>
    /\ lexFrame

lexQuasiquoteEmitted ==
    /\ Emitted("lexQuasiquote")
    /\ LET l1 == emitDone(lx)
       IN  Return(next(l1), swQuasiquote(rune(l1)))
    /\ UNCHANGED <<parenDepth, vectDepth>>
    /\ lexFrame

\* lexUnquote without the look ahead for the @ of a splice.
lexUnquoteNoSplice ==
    /\ Calling("lexUnquote")
    /\ Emit(ignore(acceptRun(peek(lx), {" "})), _UNQUOTE)
    /\ UNCHANGED <<parenDepth, vectDepth>>
    /\ lexFrame

lexUnquote ==
    /\ Calling("lexUnquote")
    /\ IF rune(lx) = "@"
       THEN Return(peek(lx), "lexUnquoteSplice")
       ELSE Emit(ignore(acceptRun(peek(lx), {" "})), _UNQUOTE)
    /\ UNCHANGED <<parenDepth, vectDepth>>
    /\ lexFrame

lexUnquoteEmitted ==
    /\ Emitted("lexUnquote")
    /\ LET l1 == emitDone(lx)
       IN  Return(next(l1), swUnquote(rune(l1)))
    /\ UNCHANGED <<parenDepth, vectDepth>>
    /\ lexFrame

lexUnquoteSplice ==
    /\ Calling("lexUnquoteSplice")
    /\ Emit(ignore(acceptRun(next(lx), {" "})), _UNQUOTESPLICE)
    /\ UNCHANGED <<parenDepth, vectDepth>>
    /\ lexFrame

lexUnquoteSpliceEmitted ==
    /\ Emitted("lexUnquoteSplice")
    /\ LET l1 == emitDone(lx)
       IN  Return(next(l1), swUnquoteSplice(rune(l1)))
    /\ UNCHANGED <<parenDepth, vectDepth>>
    /\ lexFrame

\* lexWhitespace without the parenDepth test at the end of the input.
lexWhitespaceNoDepthTest ==
    /\ Calling("lexWhitespace")
    /\ LET l1 == ignore(lx)
           c == rune(l1)
           l2 == next(l1)
       IN  IF c = eof
           THEN Emit(l2, _EOF)
           ELSE Return(l2, swWhitespace(c))
    /\ UNCHANGED <<parenDepth, vectDepth>>
    /\ lexFrame

lexWhitespace ==
    /\ Calling("lexWhitespace")
    /\ LET l1 == ignore(lx)
           c == rune(l1)
           l2 == next(l1)
       IN  IF c = eof
           THEN IF parenDepth > 0
                THEN Errorf(l2, <<"unclosed paren">>)
                ELSE Emit(l2, _EOF)
           ELSE Return(l2, swWhitespace(c))
    /\ UNCHANGED <<parenDepth, vectDepth>>
    /\ lexFrame

\* After emit(_EOF): return nil.
lexWhitespaceEmitted ==
    /\ Emitted("lexWhitespace")
    /\ Return(emitDone(lx), nil)
    /\ UNCHANGED <<parenDepth, vectDepth>>
    /\ lexFrame

\* lexString taking a backslash for an ordinary character.
lexStringNoEscape ==
    /\ Calling("lexString")
    /\ LET c == rune(lx)
           l1 == next(lx)
       IN  CASE c = "\"" -> Emit(l1, _STRING)
             [] OTHER -> Return(l1, "lexString")
    /\ UNCHANGED <<parenDepth, vectDepth>>
    /\ lexFrame

lexString ==
    /\ Calling("lexString")
    /\ LET c == rune(lx)
           l1 == next(lx)
       IN  CASE c = "\"" -> Emit(l1, _STRING)
             [] c = "\\" -> Return(next(l1), "lexString")
             [] OTHER -> Return(l1, "lexString")
    /\ UNCHANGED <<parenDepth, vectDepth>>
    /\ lexFrame

lexStringEmitted ==
    /\ Emitted("lexString")
    /\ Return(emitDone(lx), "lexWhitespace")
    /\ UNCHANGED <<parenDepth, vectDepth>>
    /\ lexFrame

lexInt ==
    /\ Calling("lexInt")
    /\ LET l1 == acceptRun(lx, digits)
           c == rune(l1)
           l2 == peek(l1)
       IN  CASE c \in intDelims -> Emit(l2, _INT)
             [] c = "." -> Return(next(l2), "lexFloat")
             [] OTHER -> Errorf(l2, <<"unexpected rune in lexInt: ", c>>)
    /\ UNCHANGED <<parenDepth, vectDepth>>
    /\ lexFrame

\* After emit(_INT), in the case of the rune peeked (still the next one): l.next()
\* and the state of that case.
lexIntEmitted ==
    /\ Emitted("lexInt")
    /\ LET l1 == emitDone(lx)
       IN  Return(next(l1), swInt(rune(l1)))
    /\ UNCHANGED <<parenDepth, vectDepth>>
    /\ lexFrame

lexFloat ==
    /\ Calling("lexFloat")
    /\ Emit(acceptRun(lx, digits), _FLOAT)
    /\ UNCHANGED <<parenDepth, vectDepth>>
    /\ lexFrame

lexFloatEmitted ==
    /\ Emitted("lexFloat")
    /\ LET l1 == emitDone(lx)
           c == rune(l1)
           l2 == next(l1)
       IN  IF swFloat(c) = "errorf"
           THEN Errorf(l2, <<"unexpected run in lexFloat: ", c>>)
           ELSE Return(l2, swFloat(c))
    /\ UNCHANGED <<parenDepth, vectDepth>>
    /\ lexFrame

lexSymbol ==
    /\ Calling("lexSymbol")
    /\ LET c == rune(lx)
           l1 == peek(lx)
       IN  IF c \in symbolDelims
           THEN Emit(l1, _SYMBOL)
           ELSE Return(next(l1), "lexSymbol")
    /\ UNCHANGED <<parenDepth, vectDepth>>
    /\ lexFrame

lexSymbolEmitted ==
    /\ Emitted("lexSymbol")
    /\ LET l1 == emitDone(lx)
       IN  Return(next(l1), swSymbol(rune(l1)))
    /\ UNCHANGED <<parenDepth, vectDepth>>
    /\ lexFrame

lexCloseParen ==
    /\ Calling("lexCloseParen")
    /\ Emit(lx, _RPAREN)
    /\ UNCHANGED <<parenDepth, vectDepth>>
    /\ lexFrame

lexCloseParenEmitted ==
    /\ Emitted("lexCloseParen")
    /\ parenDepth' = parenDepth - 1
    /\ LET l1 == emitDone(lx)
           c == rune(l1)
           l2 == next(l1)
       IN  IF parenDepth - 1 < 0
           THEN Errorf(l1, <<"unexpected close paren">>)
           ELSE IF swCloseParen(c) = "errorf"
                THEN Errorf(l2, <<"unimplemented">>)
                ELSE Return(l2, swCloseParen(c))
    /\ UNCHANGED vectDepth
    /\ lexFrame

lexComment ==
    /\ Calling("lexComment")
    /\ Return(next(lx), swComment(rune(lx)))
    /\ UNCHANGED <<parenDepth, vectDepth>>
    /\ lexFrame

\* Every step of the lexer goroutine.
Lexer ==
    \/ run \/ errorf
    \/ lexOpenVect \/ lexOpenVectEmitted
    \/ lexCloseVect \/ lexCloseVectEmitted
    \/ lexOpenParen \/ lexOpenParenEmitted
    \/ lexQuote \/ lexQuoteEmitted
    \/ lexQuasiquote \/ lexQuasiquoteEmitted
    \/ lexUnquote \/ lexUnquoteEmitted
    \/ lexUnquoteSplice \/ lexUnquoteSpliceEmitted
    \/ lexWhitespace \/ lexWhitespaceEmitted
    \/ lexString \/ lexStringEmitted
    \/ lexInt \/ lexIntEmitted
    \/ lexFloat \/ lexFloatEmitted
    \/ lexSymbol \/ lexSymbolEmitted
    \/ lexCloseParen \/ lexCloseParenEmitted
    \/ lexComment

----------------------------------------------------------------------------
(* The channel, and a consumer that keeps pulling *)

\* The item a receive on l.items returns now: the one a blocked send offers, or
\* the zero item once the channel is closed.
received == IF chan # NoItem THEN chan ELSE zeroItem

\* nextItem: item := <-l.items; l.lastPos = item.pos; return item
nextItem ==
    /\ chan # NoItem \/ closed
    /\ recvd' = Append(recvd, received)
    /\ lastPos' = received.pos
    /\ chan' = NoItem
    /\ UNCHANGED closed

IsTerminal(it) == it.typ \in {_EOF, itemError}

\* A consumer that calls nextItem until it has been handed a terminal item.
Pull ==
    /\ ppc = "pull"
    /\ IF recvd = <<>> THEN TRUE ELSE ~IsTerminal(recvd[Len(recvd)])
    /\ nextItem
    /\ UNCHANGED <<input, pos, start, width, parenDepth, vectDepth, state, lpc,
                   emitted, stack, ppc, retval>>

----------------------------------------------------------------------------
(* lex(name, input), and the tokenizer with a consumer that keeps pulling *)

\* Every text of at most n characters.
Texts(n) == UNION {[1..k -> Alphabet] : k \in 0..n}

\* The state lex() leaves: a fresh lexer, its goroutine about to enter run.
lex(text) ==
    /\ input = text
    /\ pos = 0 /\ start = 0 /\ width = 0 /\ lastPos = 0
    /\ parenDepth = 0 /\ vectDepth = 0
    /\ state = "lexWhitespace"
    /\ lpc = "loop"
    /\ chan = NoItem
    /\ closed = FALSE
    /\ emitted = <<>>
    /\ recvd = <<>>

LexInit ==
    /\ \E text \in Texts(MaxLen) : lex(text)
    /\ stack = <<>>
    /\ ppc = "pull"
    /\ retval = <<>>

LexNext == Lexer \/ Pull

LexSpec == LexInit /\ [][LexNext]_vars

\* The goroutine scheduler runs every goroutine that can take a step.
LexFairSpec == LexSpec /\ WF_vars(Lexer) /\ WF_vars(Pull)

----------------------------------------------------------------------------
(* parse(l, p): the reader.  An activation is a record: p, its slice, and at,
   where it waits: "loop" (running its for loop), "arg" (in the call
   parse(l, []Any{}) whose result it will append) or "tail" (in the call whose
   result it will return).  A []Any nested in a []Any is a "list" node. *)

\* v.Type, by the switch on t.typ; the zero value "" when no case matches.
astType(typ) ==
    CASE typ = _INT -> "INT"
      [] typ = _FLOAT -> "FLOAT"
      [] typ = _STRING -> "STRING"
      [] typ = _SYMBOL -> "IDENT"
      [] OTHER -> ""

\* var v astToken; v.Value = t.val; v.Type by the switch.
astToken(t) == [tag |-> "atom", Type |-> astType(t.typ), Value |-> t.val]

\* A []Any held as an element of another.
listNode(elems) == [tag |-> "list", elems |-> elems]

top == stack[Len(stack)]

popped == SubSeq(stack, 1, Len(stack) - 1)

\* The running activation makes a call: it waits at `at`, the callee starts with q.
call(at, q) == Append(popped, [top EXCEPT !.at = at]) \o <<[p |-> q, at |-> "loop"]>>

\* t := l.nextToken() in the running activation, when the token is of a type in S.
nextToken(S) ==
    /\ ppc = "run"
    /\ chan # NoItem \/ closed
    /\ received.typ \in S
    /\ nextItem

parseFrame == UNCHANGED <<input, pos, start, width, parenDepth, vectDepth, state, lpc, emitted>>

\* if t.typ == _EOF { break } ... return p
parseEOF ==
    /\ nextToken({_EOF})
    /\ retval' = top.p
    /\ stack' = popped
    /\ ppc' = "ret"
    /\ parseFrame

\* else if t.typ == _INVALID { panic("syntax error") }
parseInvalid ==
    /\ nextToken({_INVALID})
    /\ ppc' = "panic"
    /\ UNCHANGED <<stack, retval>>
    /\ parseFrame

\* parseLParen going on in the same list instead of reading a nested one.
parseLParenFlat ==
    /\ nextToken({_LPAREN})
    /\ stack' = call("tail", top.p)
    /\ UNCHANGED <<ppc, retval>>
    /\ parseFrame

\* if t.typ == _LPAREN { p = append(p, parse(l, []Any{})); return parse(l, p) }
parseLParen ==
    /\ nextToken({_LPAREN})
    /\ stack' = call("arg", <<>>)
    /\ UNCHANGED <<ppc, retval>>
    /\ parseFrame

\* else if t.typ == _RPAREN { return p }
parseRParen ==
    /\ nextToken({_RPAREN})
    /\ retval' = top.p
    /\ stack' = popped
    /\ ppc' = "ret"
    /\ parseFrame

otherTypes == {_LVECT, _RVECT, _SYMBOL, _STRING, _FLOAT, _INT,
               _QUOTE, _QUASIQUOTE, _UNQUOTE, _UNQUOTESPLICE}

\* else { ...; return parse(l, append(p, v)) }
parseOther ==
    /\ nextToken(otherTypes)
    /\ stack' = call("tail", Append(top.p, astToken(received)))
    /\ UNCHANGED <<ppc, retval>>
    /\ parseFrame

\* parseReturn putting the nested list before the elements read so far.
parseReturnPrepends ==
    /\ ppc = "ret"
    /\ IF stack = <<>>
       THEN ppc' = "done" /\ UNCHANGED <<stack, retval>>
       ELSE IF top.at = "arg"
            THEN /\ stack' = call("tail", <<listNode(retval)>> \o top.p)
                 /\ ppc' = "run"
                 /\ UNCHANGED retval
            ELSE /\ stack' = popped
                 /\ UNCHANGED <<ppc, retval>>
    /\ UNCHANGED <<chan, closed, lastPos, recvd>>
    /\ parseFrame

\* A call of parse returns retval to the activation that made it, or to the
\* caller of parse when no activation is left.
parseReturn ==
    /\ ppc = "ret"
    /\ IF stack = <<>>
       THEN ppc' = "done" /\ UNCHANGED <<stack, retval>>
       ELSE IF top.at = "arg"
            THEN /\ stack' = call("tail", Append(top.p, listNode(retval)))
                 /\ ppc' = "run"
                 /\ UNCHANGED retval
            ELSE /\ stack' = popped
                 /\ UNCHANGED <<ppc, retval>>
    /\ UNCHANGED <<chan, closed, lastPos, recvd>>
    /\ parseFrame

parse == parseEOF \/ parseInvalid \/ parseLParen \/ parseRParen \/ parseOther \/ parseReturn

\* l := lex(text); p := parse(l, []Any{})
Init ==
    /\ \E text \in Texts(MaxLen) : lex(text)
    /\ stack = <<[p |-> <<>>, at |-> "loop"]>>
    /\ ppc = "run"
    /\ retval = <<>>

Next == Lexer \/ parse

Spec == Init /\ [][Next]_vars

FairSpec == Spec /\ WF_vars(Lexer) /\ WF_vars(parse)

----------------------------------------------------------------------------
(* parse on any well-formed token stream: a token source stands in for the
   lexer and sends, one item at a time, atoms and balanced parens, then EOF. *)

\* The atoms the token source sends: type and text.
Atoms == {<<_INT, <<"1">> >>, <<_INT, <<"2">> >>, <<_FLOAT, <<"1", ".", "2">> >>,
          <<_STRING, <<"\"", "a", "\"">> >>, <<_SYMBOL, <<"a">> >>}

RECURSIVE Count(_, _)
\* How many items of type typ the sequence of items holds.
Count(items, typ) ==
    IF items = <<>> THEN 0
    ELSE (IF items[1].typ = typ THEN 1 ELSE 0) + Count(Tail(items), typ)

\* list-open items minus list-close items.
Depth(items) == Count(items, _LPAREN) - Count(items, _RPAREN)

\* The source sends one more item: an atom or a list-open while the stream can
\* still be closed within MaxToks items, a list-close inside a list, EOF outside.
TokenSource ==
    /\ lpc = "feed"
    /\ chan = NoItem
    /\ \E t \in Atoms \cup {<<_LPAREN, <<"(">> >>, <<_RPAREN, <<")">> >>, <<_EOF, <<>> >>} :
          LET it == [typ |-> t[1], pos |-> Len(emitted), val |-> t[2]]
              d == Depth(Append(emitted, it))
          IN  /\ d >= 0
              /\ Len(emitted) + 1 + d + (IF t[1] = _EOF THEN 0 ELSE 1) <= MaxToks
              /\ t[1] = _EOF => d = 0
              /\ chan' = it
              /\ emitted' = Append(emitted, it)
              /\ lpc' = IF t[1] = _EOF THEN "fed" ELSE "feed"
    /\ UNCHANGED <<input, pos, start, width, lastPos, parenDepth, vectDepth, state,
                   closed, recvd, stack, ppc, retval>>

\* p := parse(l, []Any{}) on a token source instead of a lexer.
ParseInit ==
    /\ input = <<>>
    /\ pos = 0 /\ start = 0 /\ width = 0 /\ lastPos = 0
    /\ parenDepth = 0 /\ vectDepth = 0
    /\ state = nil
    /\ lpc = "feed"
    /\ chan = NoItem
    /\ closed = FALSE
    /\ emitted = <<>>
    /\ recvd = <<>>
    /\ stack = <<[p |-> <<>>, at |-> "loop"]>>
    /\ ppc = "run"
    /\ retval = <<>>

ParseNext == TokenSource \/ parseEOF \/ parseLParen \/ parseRParen \/ parseOther \/ parseReturn

ParseSpec == ParseInit /\ [][ParseNext]_vars

----------------------------------------------------------------------------
(* Properties of the tokenizer with a consumer that keeps pulling *)

Last(q) == q[Len(q)]

Front(q, i) == SubSeq(q, 1, i - 1)

HasTerminal == emitted # <<>> /\ IsTerminal(Last(emitted))

\* C1: on every finite input, with a consumer that keeps pulling, the tokenizer
\* eventually emits a terminal token (end-of-input or error) and its run loop
\* stops.
C1_Terminates == <>(HasTerminal /\ lpc = "closed")

\* C2: at most one terminal token is ever emitted and nothing is emitted after
\* it: only the last item emitted can be terminal, and once it is emitted the
\* lexer calls no state function again (the state returned is nil, the run loop
\* exits).
C2_OneTerminalLast ==
    /\ \A i \in 1..Len(emitted) - 1 : ~IsTerminal(emitted[i])
    /\ HasTerminal => /\ lpc \in {"emit", "errorf", "loop", "closed"}
                      /\ lpc \in {"loop", "closed"} => state = nil

\* A run that emitted two items or more, ended by an error token, and closed.
C2_Witness ==
    /\ lpc = "closed"
    /\ Len(emitted) >= 2
    /\ Last(emitted).typ = itemError

unclosedParen == [typ |-> itemError, val |-> <<"unclosed paren">>]

unexpectedCloseParen == [typ |-> itemError, val |-> <<"unexpected close paren">>]

Is(it, what) == it.typ = what.typ /\ it.val = what.val

\* The history part of C4: end-of-input is only emitted at list depth zero, and
\* a list-close emitted at list depth 0 is followed by nothing but the error
\* "unexpected close paren": while it is the last item, the lexer is still in
\* the send of that list-close.
C4_History ==
    \A i \in 1..Len(emitted) :
        /\ emitted[i].typ = _EOF => Depth(Front(emitted, i)) = 0
        /\ (emitted[i].typ = _RPAREN /\ Depth(Front(emitted, i)) = 0) =>
              IF i < Len(emitted)
              THEN Is(emitted[i + 1], unexpectedCloseParen)
              ELSE lpc = "emit" /\ state = "lexCloseParen"

\* The step part of C4: a step of Dispatch at the end of the input with list
\* depth > 0 emits the error "unclosed paren", and the step after the send of a
\* list-close read at list depth 0 emits the error "unexpected close paren".
C4_Step ==
    /\ (Calling("lexWhitespace") /\ rune(lx) = eof /\ Depth(emitted) > 0 /\ lpc' # lpc)
          => (Len(emitted') = Len(emitted) + 1 /\ Is(Last(emitted'), unclosedParen))
    /\ (Emitted("lexCloseParen") /\ Depth(emitted) < 0 /\ lpc' # lpc)
          => (Len(emitted') = Len(emitted) + 1 /\ Is(Last(emitted'), unexpectedCloseParen))

\* C4: end-of-input is never emitted for unbalanced parentheses: whenever it is
\* emitted the list depth (list-opens minus list-closes emitted) is zero; the
\* end of the input in Dispatch at list depth > 0 gives the error "unclosed
\* paren"; a ')' read at list depth 0 gives, right after its list-close, the
\* error "unexpected close paren".
C4_ParenDepthTracked == [](C4_History) /\ [][C4_Step]_vars

\* An input with an open paren still open at its end: the run ended by the
\* error "unclosed paren".
C4_Witness ==
    /\ lpc = "closed"
    /\ HasTerminal
    /\ Is(Last(emitted), unclosedParen)
    /\ Depth(emitted) > 0

\* The type and text of every item of a sequence.
KindsTexts(items) == [i \in 1..Len(items) |-> <<items[i].typ, items[i].val>>]

\* A text that is one parenthesised list of unsigned integer literals separated
\* by single spaces, with nothing after the closing paren.
IsIntList(text) ==
    /\ Len(text) >= 3
    /\ text[1] = "(" /\ text[Len(text)] = ")"
    /\ text[2] \in digits /\ text[Len(text) - 1] \in digits
    /\ \A i \in 2..Len(text) - 1 : text[i] \in digits \cup {" "}
    /\ \A i \in 2..Len(text) - 2 : ~(text[i] = " " /\ text[i + 1] = " ")

RECURSIVE IntListRest(_, _, _)
\* The types and texts C3 expects from character i of an integer list on, cur
\* being the digits of the literal being read.
IntListRest(text, i, cur) ==
    LET lit == IF cur = <<>> THEN <<>> ELSE << <<_INT, cur>> >>
    IN  CASE text[i] = ")" -> lit \o << <<_RPAREN, <<")">> >>, <<_EOF, <<>> >> >>
          [] text[i] = " " -> lit \o IntListRest(text, i + 1, <<>>)
          [] OTHER -> IntListRest(text, i + 1, Append(cur, text[i]))

IntListTokens(text) == << <<_LPAREN, <<"(">> >> >> \o IntListRest(text, 2, <<>>)

\* C3: an input that is exactly one parenthesised list of space-separated
\* unsigned integer literals yields list-open, one integer token per literal in
\* source order with its digits as text, list-close, end-of-input, and no error
\* token.
C3_IntListTokens ==
    IsIntList(input) =>
        /\ \A i \in 1..Len(emitted) : emitted[i].typ # itemError
        /\ lpc = "closed" => KindsTexts(emitted) = IntListTokens(input)

\* vector-open items minus vector-close items.
VectDepth(items) == Count(items, _LVECT) - Count(items, _RVECT)

\* C5: vector brackets are depth-tracked like parentheses: a ']' read at vector
\* depth 0 makes the tokenizer emit an error token (nothing else follows its
\* vector-close), and end-of-input is never emitted at vector depth > 0.
C5_VectDepthTracked ==
    \A i \in 1..Len(emitted) :
        /\ emitted[i].typ = _EOF => VectDepth(Front(emitted, i)) <= 0
        /\ (emitted[i].typ = _RVECT /\ VectDepth(Front(emitted, i)) = 0 /\ i < Len(emitted))
              => emitted[i + 1].typ = itemError

----------------------------------------------------------------------------
(* Properties of parse *)

RefTag(typ) ==
    CASE typ = _INT -> "INT"
      [] typ = _FLOAT -> "FLOAT"
      [] typ = _STRING -> "STRING"
      [] typ = _SYMBOL -> "IDENT"

RefAtom(t) == [tag |-> "atom", Type |-> RefTag(t.typ), Value |-> t.val]

RefList(elems) == [tag |-> "list", elems |-> elems]

RECURSIVE RefFold(_, _)
\* The reference reader: a left-to-right pass over the tokens that keeps the
\* lists still open, outermost first; an atom joins the innermost, a list-close
\* ends the innermost, which joins the one around it.
RefFold(toks, open) ==
    IF toks = <<>> \/ toks[1].typ = _EOF THEN open
    ELSE LET t == toks[1]
             n == Len(open)
         IN  CASE t.typ = _LPAREN -> RefFold(Tail(toks), Append(open, <<>>))
               [] t.typ = _RPAREN ->
                    RefFold(Tail(toks),
                            [SubSeq(open, 1, n - 1) EXCEPT
                                ![n - 1] = Append(@, RefList(open[n]))])
               [] OTHER -> RefFold(Tail(toks), [open EXCEPT ![n] = Append(@, RefAtom(t))])

\* The reference tree of a balanced token stream: its top-level forms.
RefTree(toks) == RefFold(toks, << <<>> >>)[1]

\* C6: lex then parse on an input with a ')' that has no matching '(' (a
\* list-close emitted at list depth 0) ends in a reported error: parse never
\* returns normally.
C6_UnmatchedCloseReported ==
    (\E i \in 1..Len(emitted) : emitted[i].typ = _RPAREN /\ Depth(Front(emitted, i)) = 0)
        => ppc # "done"

\* C7: on any stream of atoms and balanced list-open/list-close tokens ended by
\* end-of-input, parse(l, []) returns the reference tree of the stream: the
\* forms in token order at every level, nested as the parens are, each atom with
\* its text and its tag INT, FLOAT, STRING or IDENT.
C7_ParseIsReferenceTree ==
    ppc = "done" => (recvd = emitted /\ retval = RefTree(emitted))

\* parse has returned a tree whose first form is a list of an atom and a list.
C7_Witness ==
    /\ ppc = "done"
    /\ Len(retval) >= 1
    /\ retval[1].tag = "list"
    /\ Len(retval[1].elems) = 2
    /\ retval[1].elems[1].tag = "atom"
    /\ retval[1].elems[2].tag = "list"

PrefixTypes == {_QUOTE, _QUASIQUOTE, _UNQUOTE, _UNQUOTESPLICE}

AtomTypes == {_INT, _FLOAT, _STRING, _SYMBOL}

\* The tokens of exactly one complete form: an atom, or a balanced list of atoms
\* and lists.
OneForm(toks) ==
    /\ toks # <<>>
    /\ \A i \in 1..Len(toks) : toks[i].typ \in AtomTypes \cup {_LPAREN, _RPAREN}
    /\ \/ Len(toks) = 1 /\ toks[1].typ \in AtomTypes
       \/ /\ toks[1].typ = _LPAREN
          /\ Depth(toks) = 0
          /\ \A i \in 2..Len(toks) : Depth(Front(toks, i)) > 0

Quoted(kind, inner) == [tag |-> "quoted", kind |-> kind, inner |-> inner]

\* C8: a prefix token followed by one complete form is read as a single Quoted
\* node that carries the prefix's kind and has that form as its inner, not as
\* two sibling nodes.
C8_PrefixWrapsForm ==
    (/\ ppc = "done"
     /\ Len(recvd) >= 3
     /\ recvd[1].typ \in PrefixTypes
     /\ Last(recvd).typ = _EOF
     /\ OneForm(SubSeq(recvd, 2, Len(recvd) - 1)))
        => /\ Len(retval) = 1
           /\ retval[1] = Quoted(recvd[1].typ, RefTree(SubSeq(recvd, 2, Len(recvd) - 1))[1])

RECURSIVE BracketDepth(_)
\* '[' minus ']' in a text.
BracketDepth(text) ==
    IF text = <<>> THEN 0
    ELSE (CASE text[1] = "[" -> 1 [] text[1] = "]" -> -1 [] OTHER -> 0)
         + BracketDepth(Tail(text))

\* A text that is one bracketed form: nested brackets around atoms (runs of
\* digits, runs of the letter) and spaces.
IsVectorText(text) ==
    /\ Len(text) >= 2
    /\ \A i \in 1..Len(text) : text[i] \in {"[", "]", " ", "a"} \cup digits
    /\ \A i \in 1..Len(text) - 1 :
          ~(text[i] \in digits /\ text[i + 1] = "a") /\ ~(text[i] = "a" /\ text[i + 1] \in digits)
    /\ BracketDepth(text) = 0
    /\ \A i \in 2..Len(text) : BracketDepth(Front(text, i)) > 0

RefVector(elems) == [tag |-> "vector", elems |-> elems]

RefTextAtom(cur) ==
    [tag |-> "atom", Type |-> IF cur[1] \in digits THEN "INT" ELSE "IDENT", Value |-> cur]

RECURSIVE RefVectFold(_, _, _)
\* The reference reader of a bracketed text: open holds the vectors still open,
\* cur the characters of the atom being read.
RefVectFold(text, open, cur) ==
    LET n == Len(open)
        flushed == IF cur = <<>> THEN open
                   ELSE [open EXCEPT ![n] = Append(@, RefTextAtom(cur))]
    IN  IF text = <<>> THEN flushed
        ELSE CASE text[1] = "[" -> RefVectFold(Tail(text), Append(flushed, <<>>), <<>>)
               [] text[1] = "]" ->
                    RefVectFold(Tail(text),
                                [SubSeq(flushed, 1, n - 1) EXCEPT
                                    ![n - 1] = Append(@, RefVector(flushed[n]))],
                                <<>>)
               [] text[1] = " " -> RefVectFold(Tail(text), flushed, <<>>)
               [] OTHER -> RefVectFold(Tail(text), open, Append(cur, text[1]))

RefVectorTree(text) == RefVectFold(text, << <<>> >>, <<>>)[1]

\* C9: lexing and parsing an input of nested brackets around atoms gives no
\* error, and the tree parse returns is made of Vector nodes nested as the
\* brackets are, their children in source order.
C9_VectorsParsed ==
    IsVectorText(input) =>
        /\ \A i \in 1..Len(emitted) : emitted[i].typ # itemError
        /\ ppc # "panic"
        /\ ppc = "done" => retval = RefVectorTree(input)

\* C10: in the comment state the tokenizer emits nothing and discards every
\* character up to and including the next newline, or up to the end of the
\* input, and then resumes Dispatch.
C10_CommentDiscarded ==
    [][(Calling("lexComment") /\ lpc' # lpc) =>
          /\ emitted' = emitted
          /\ pos' = IF pos < Len(input) THEN pos + 1 ELSE pos
          /\ state' = IF rune(lx) \in {"\n", eof} THEN "lexWhitespace" ELSE "lexComment"]_vars

----------------------------------------------------------------------------
(* Properties of the lexer and parse running together *)

\* The state part of C11: the items received are, in order, the items emitted
\* less at most one, which is the one the lexer's blocked send is offering.
C11_OneSlot ==
    /\ Len(recvd) <= Len(emitted)
    /\ Len(emitted) <= Len(recvd) + 1
    /\ recvd = SubSeq(emitted, 1, Len(recvd))
    /\ IF Len(emitted) = Len(recvd) + 1
       THEN chan = Last(emitted) /\ lpc \in {"emit", "errorf"}
       ELSE chan = NoItem

\* The step part of C11: while an item waits to be taken the lexer does not move.
C11_Blocked ==
    chan # NoItem =>
        /\ <<pos, start, width, parenDepth, vectDepth, state, lpc>>' =
           <<pos, start, width, parenDepth, vectDepth, state, lpc>>
        /\ emitted' = emitted

\* C11: tokenizer and reader meet in a one-slot handshake: at most one emitted
\* token waits unconsumed, the tokenizer does not advance past an emit until the
\* reader has taken the token, and the reader receives the tokens in the order
\* emitted, each at most once.
C11_Handshake == [](C11_OneSlot) /\ [][C11_Blocked]_vars

\* The reader has taken one token and the next one is waiting in the send.
C11_Witness ==
    /\ Len(recvd) >= 1
    /\ Len(emitted) = Len(recvd) + 1
    /\ chan # NoItem

\* C12: when the reader stops pulling before the tokenizer has finished, the
\* tokenizer goroutine still terminates: it is never left blocked in the send
\* of a token that nobody will take. parse is the only receiver, so a send
\* pending once parse has returned stays pending for ever.
C12_NoSendLeftPending == ~(ppc = "done" /\ chan # NoItem)

----------------------------------------------------------------------------
(* main: the interactive loop *)

\* Between two lines no lexer of the loop body is in scope. The goroutine of
\* the line before is left to itself: its lexer is reachable from nowhere else.
atPrompt ==
    /\ input = <<>>
    /\ pos = 0 /\ start = 0 /\ width = 0 /\ lastPos = 0
    /\ parenDepth = 0 /\ vectDepth = 0
    /\ state = nil
    /\ lpc = "closed"
    /\ chan = NoItem
    /\ closed = FALSE
    /\ emitted = <<>>
    /\ recvd = <<>>
    /\ stack = <<>>
    /\ retval = <<>>
    /\ ppc = "prompt"

\* fmt.Print(">> "); line := r.ReadLine(); l := lex(line + "\n"); parse(l, []Any{})
mainReadLine ==
    /\ ppc = "prompt"
    /\ \E line \in Texts(MaxLen - 1) : input' = Append(line, "\n")
    /\ pos' = 0 /\ start' = 0 /\ width' = 0 /\ lastPos' = 0
    /\ parenDepth' = 0 /\ vectDepth' = 0
    /\ state' = "lexWhitespace"
    /\ lpc' = "loop"
    /\ chan' = NoItem
    /\ closed' = FALSE
    /\ emitted' = <<>>
    /\ recvd' = <<>>
    /\ stack' = <<[p |-> <<>>, at |-> "loop"]>>
    /\ retval' = <<>>
    /\ ppc' = "run"

\* parse has returned: the tree is converted, printed, and the loop goes round.
mainPrint ==
    /\ ppc = "done"
    /\ input' = <<>>
    /\ pos' = 0 /\ start' = 0 /\ width' = 0 /\ lastPos' = 0
    /\ parenDepth' = 0 /\ vectDepth' = 0
    /\ state' = nil
    /\ lpc' = "closed"
    /\ chan' = NoItem
    /\ closed' = FALSE
    /\ emitted' = <<>>
    /\ recvd' = <<>>
    /\ stack' = <<>>
    /\ retval' = <<>>
    /\ ppc' = "prompt"

main == mainReadLine \/ mainPrint

MainInit == atPrompt

\* A panic of parse is recovered nowhere: after it no step of main is left.
MainNext == main \/ Lexer \/ parse

MainSpec == MainInit /\ [][MainNext]_vars

\* C13: a failure of the lexer or of parse comes back to the caller as an
\* ordinary result and never aborts the process: whatever line is read, an
\* error token included, the loop of main goes on to its next prompt, so parse
\* never ends a line in a panic.
C13_FailureNeverAborts == ppc # "panic"

----------------------------------------------------------------------------
(* Properties of the dispatch after a bracket and after a quoting prefix *)

\* What the dispatch state does with character c, as the outcome of a step.
DispatchOutcome(c) ==
    IF c = eof
    THEN IF parenDepth' > 0
         THEN lpc' = "errorf" /\ chan'.typ = itemError /\ chan'.val = <<"unclosed paren">>
         ELSE lpc' = "emit" /\ chan'.typ = _EOF
    ELSE lpc' = "loop" /\ state' = swWhitespace(c)

\* The state function fn goes on after the send of its emit has completed.
GoesOn(fn) == lpc = "emit" /\ state = fn /\ chan = NoItem /\ lpc' # "emit"

BracketFns == {"lexOpenParen", "lexCloseParen", "lexOpenVect", "lexCloseVect"}

\* C14: the character right after a list-open, list-close, vector-open or
\* vector-close token is dispatched exactly as the dispatch state would dispatch
\* it, whatever it is: a double quote, a quoting prefix, a digit, a symbol
\* character, the end of the input. An unmatched close, an error of its own, is
\* left aside.
C14_BracketThenDispatch ==
    [][\A fn \in BracketFns :
          (GoesOn(fn) /\ parenDepth' >= 0 /\ vectDepth' >= 0) =>
              DispatchOutcome(rune(lx))]_vars

QuoteFns == {"lexQuote", "lexQuasiquote", "lexUnquote", "lexUnquoteSplice"}

\* C15: after a quote, quasiquote, unquote or unquote-splice marker has been
\* emitted, the next character is handled exactly as the dispatch state handles
\* it, for every next character: tab, newline, semicolon, double quote, bracket,
\* quoting prefix, digit, any other character, the end of the input.
C15_PrefixThenDispatch ==
    [][\A fn \in QuoteFns : GoesOn(fn) => DispatchOutcome(rune(lx))]_vars

----------------------------------------------------------------------------
(* Properties of the marker tokens *)

RECURSIVE SkipSpacesBack(_)
\* The number of characters of the input before offset p that are left when the
\* spaces just before p are dropped.
SkipSpacesBack(p) ==
    IF p = 0 THEN 0
    ELSE IF input[p] = " " THEN SkipSpacesBack(p - 1) ELSE p

\* The characters that make the marker of each type.
PrefixText(typ) ==
    CASE typ = _QUOTE -> <<"'">>
      [] typ = _QUASIQUOTE -> <<backquote>>
      [] typ = _UNQUOTE -> <<",">>
      [] typ = _UNQUOTESPLICE -> <<",", "@">>

\* The marker token it stands, with no text of its own, after its prefix and the
\* spaces behind the prefix; the prefix ends at character k of the input.
MarkerOf(it, k) ==
    /\ it.val = <<>>
    /\ k >= Len(PrefixText(it.typ))
    /\ SubSeq(input, k - Len(PrefixText(it.typ)) + 1, k) = PrefixText(it.typ)
    /\ (it.typ = _UNQUOTE /\ k < Len(input)) => input[k + 1] # "@"

\* The history part of C16: every marker emitted is the marker of its prefix;
\* no prefix has two markers; no later token reaches back over the spaces.
C16_Markers ==
    \A i \in DOMAIN emitted :
        emitted[i].typ \in PrefixTypes =>
            /\ MarkerOf(emitted[i], SkipSpacesBack(emitted[i].pos))
            /\ \A j \in DOMAIN emitted :
                   j > i =>
                       /\ emitted[j].pos >= emitted[i].pos
                       /\ emitted[j].typ \in PrefixTypes =>
                              SkipSpacesBack(emitted[j].pos) > SkipSpacesBack(emitted[i].pos)

\* The step part of C16: a prefix read by the dispatch yields its marker at once,
\* but for a comma before @, which yields nothing and leaves it to the splice.
C16_Yields ==
    \A fn \in QuoteFns :
        (Calling(fn) /\ lpc' # "call") =>
            \/ /\ Len(emitted') = Len(emitted) + 1
               /\ Last(emitted').typ \in PrefixTypes
            \/ /\ fn = "lexUnquote"
               /\ emitted' = emitted
               /\ state' = "lexUnquoteSplice"

\* C16: each quoting prefix yields exactly one marker token, with empty text:
\* ,@ one unquote-splice and no unquote, its @ consumed; a comma not before @ one
\* unquote; ' one quote; the back quote one quasiquote; and the spaces between
\* the prefix and the form are part of no token.
C16_OneMarkerPerPrefix == [](C16_Markers) /\ [][C16_Yields]_vars

\* An unquote-splice marker has been emitted behind ,@ and a space.
C16_Witness ==
    \E i \in DOMAIN emitted :
        /\ emitted[i].typ = _UNQUOTESPLICE
        /\ emitted[i].pos = 3
        /\ Len(emitted) = i

----------------------------------------------------------------------------
(* Properties of the numeric literals and of the error positions *)

\* The characters that may follow a numeric literal.
NumberDelims == {" ", "\t", "\n", ")", ";"}

\* C17: a numeric literal token is emitted only when its digit run is followed
\* by a delimiter: space, tab, newline, close paren or semicolon; before any
\* other character no int or float token is emitted for the lexeme.
C17_NumberOnlyBeforeDelimiter ==
    \A i \in DOMAIN emitted :
        emitted[i].typ \in {_INT, _FLOAT} =>
            LET after == emitted[i].pos + Len(emitted[i].val)
            IN  after < Len(input) /\ input[after + 1] \in NumberDelims

\* Offset p of the input holds the first digit of a run of digits.
FirstDigitAt(p) ==
    /\ p < Len(input)
    /\ IsDigit(input[p + 1])
    /\ p > 0 => ~IsDigit(input[p])

\* C18: the position of every error token is the offset at which the malformed
\* lexeme started: the first digit when a digit run, continued into a float or
\* not, meets an unexpected character, and the offset of the close paren itself
\* when a close paren is unmatched.
C18_ErrorPosIsLexemeStart ==
    \A i \in DOMAIN emitted :
        LET it == emitted[i] IN
        /\ Is(it, unexpectedCloseParen) =>
               it.pos < Len(input) /\ input[it.pos + 1] = ")"
        /\ (it.typ = itemError /\ it.val[1] \in {"unexpected rune in lexInt: ",
                                                 "unexpected run in lexFloat: "}) =>
               FirstDigitAt(it.pos)

----------------------------------------------------------------------------
(* The tokenizer on texts of strings, symbols and quotes *)

\* The characters of a string literal, with a quoting prefix, a space and one
\* other character.
StringAlphabet == {"\"", "\\", "'", " ", "a"}

StringTexts == UNION {[1..k -> StringAlphabet] : k \in 0..(MaxLen + 2)}

StringInit ==
    /\ \E text \in StringTexts : lex(text)
    /\ stack = <<>>
    /\ ppc = "pull"
    /\ retval = <<>>

\* The state functions these texts can reach.
StringNext ==
    \/ run
    \/ lexWhitespace \/ lexWhitespaceEmitted
    \/ lexQuote \/ lexQuoteEmitted
    \/ lexString \/ lexStringEmitted
    \/ lexSymbol \/ lexSymbolEmitted
    \/ Pull

StringSpec == StringInit /\ [][StringNext]_vars

RECURSIVE ClosingQuote(_)
\* The index of the first double quote at or after character j of the input
\* that no backslash escapes, each backslash escaping the character after it;
\* 0 when there is none.
ClosingQuote(j) ==
    IF j > Len(input) THEN 0
    ELSE IF input[j] = "\\" THEN ClosingQuote(j + 2)
    ELSE IF input[j] = "\"" THEN j
    ELSE ClosingQuote(j + 1)

\* The history part of C19: every string token is the text of the input from an
\* opening double quote through the first unescaped double quote behind it.
C19_StringText ==
    \A i \in DOMAIN emitted :
        emitted[i].typ = _STRING =>
            LET first == emitted[i].pos + 1
                last == emitted[i].pos + Len(emitted[i].val)
            IN  /\ last > first
                /\ emitted[i].val = SubSeq(input, first, last)
                /\ input[first] = "\""
                /\ last = ClosingQuote(first + 1)

\* The step part of C19: the dispatch state and the quote state enter lexString
\* with the token starting at the double quote just read; lexString emits
\* nothing but the string token; after the token the dispatch state resumes.
C19_StringSteps ==
    /\ (state \in {"lexWhitespace", "lexQuote"} /\ state' = "lexString") =>
           start' = pos' - 1 /\ input[pos'] = "\""
    /\ (state = "lexString" /\ emitted' # emitted) =>
           emitted' = Append(emitted, [typ |-> _STRING, pos |-> start,
                                       val |-> SubSeq(input, start + 1, pos')])
    /\ (state = "lexString" /\ state' # state) =>
           Last(emitted).typ = _STRING /\ state' = "lexWhitespace" /\ start' = pos'

\* C19: a string literal that starts in the dispatch state or right after a
\* quote prefix is emitted as one string token whose text runs from the opening
\* double quote through the first double quote not escaped by a backslash, both
\* included; a backslash makes the next character part of the literal; after
\* the token the tokenizer resumes the dispatch state.
C19_StringLiteral == [](C19_StringText) /\ [][C19_StringSteps]_vars

\* Behind a quote marker a string holding an escaped double quote has been
\* emitted, and the dispatch state has resumed.
C19_Witness ==
    /\ Len(emitted) = 2
    /\ emitted[1].typ = _QUOTE
    /\ emitted[2].typ = _STRING
    /\ emitted[2].val = <<"\"", "\\", "\"", "\"">>
    /\ state = "lexWhitespace"

----------------------------------------------------------------------------
(* Properties of the nesting of parse against the depth of the lexer *)

\* The lists parse has opened and not yet closed: the activations waiting for
\* the result of parse(l, []Any{}).
ListNesting == Cardinality({i \in DOMAIN stack : stack[i].at = "arg"})

\* The state part of C20. While a token waits in the send the lexer stands
\* still, so parenDepth is the depth that token was emitted at.
C20_Nesting ==
    /\ (ppc = "run" /\ chan # NoItem) => ListNesting = parenDepth
    /\ ppc = "run" => ListNesting = Count(recvd, _LPAREN) - Count(recvd, _RPAREN)
    /\ \A i \in DOMAIN recvd :
           recvd[i].typ = _EOF =>
               /\ i = Len(recvd)
               /\ ListNesting = 0
               /\ ppc \in {"ret", "done"}

\* The step part of C20: whatever parse receives is a token waiting in the send,
\* never the zero item of the closed channel.
C20_Receives == recvd' # recvd => (chan # NoItem /\ recvd' = Append(recvd, chan))

\* C20: the list nesting of the reader equals the paren depth the tokenizer had
\* when it emitted each token, so end-of-input is only received at nesting 0
\* and parse never pulls another token after it: it never reads from the
\* closed channel.
C20_NestingIsParenDepth == [](C20_Nesting) /\ [][C20_Receives]_vars

\* parse has read a list and then end-of-input, and has returned.
C20_Witness ==
    /\ Len(recvd) = 3
    /\ recvd[1].typ = _LPAREN
    /\ recvd[2].typ = _RPAREN
    /\ recvd[3].typ = _EOF
    /\ ppc = "done"

====
